---- MODULE Spec2Model ----
(***************************************************************************)
(* Model of gravswell.quiver's EnsembleModel (model.py): the routing graph *)
(* an ensemble keeps in its configuration, and the three calls that edit   *)
(* it, add_input, add_output and pipe.                                     *)
(*                                                                         *)
(* The configuration is the protobuf message behind `self.config`:         *)
(*   config.input, config.output      repeated fields of (name, dims)      *)
(*   config.ensemble_scheduling.step  repeated field of steps, a step      *)
(*       being (model_name, model_version, input_map, output_map)          *)
(* input_map and output_map are protobuf string->string maps: reading a    *)
(* name that was never set yields "", which is how the code tests for "no  *)
(* key yet" (model.py:415, 445).  They are modelled as total functions on  *)
(* the tensor names, "" standing for no entry.                             *)
(***************************************************************************)
EXTENDS Integers, Sequences, FiniteSets, TLC

(***************************************************************************)
(* Python's None in the three places the calls take an Optional.           *)
(***************************************************************************)
NoneKey == "None"
NoneDim == 0
NoneVersion == 0

(***************************************************************************)
(* Bounds of the exploration.                                              *)
(***************************************************************************)
MaxCalls == 3

(***************************************************************************)
(* The member models of the repository the calls draw their tensors from.  *)
(* Each has a configuration of its own whose dims use -1 for a variable    *)
(* axis.  A.y and B.z are the tensors of the end-to-end example; B.w has   *)
(* another shape and feeds back into B.v (a pipe inside one model); C.u is *)
(* an input of a third model.                                              *)
(***************************************************************************)
ModelNames == {"A", "B", "C"}

TensorNames == {"y", "z", "w", "u", "v"}

MemberConfigInput(m) ==
    CASE m = "A" -> << >>
      [] m = "B" -> << [name |-> "z", dims |-> <<-1, 10>>],
                       [name |-> "v", dims |-> <<-1, 4>>] >>
      [] m = "C" -> << [name |-> "u", dims |-> <<-1, 10>>] >>

MemberConfigOutput(m) ==
    CASE m = "A" -> << [name |-> "y", dims |-> <<-1, 10>>] >>
      [] m = "B" -> << [name |-> "w", dims |-> <<-1, 4>>] >>
      [] m = "C" -> << >>

\* The explicit keys a caller passes, and no key at all.  "" is the value a
\* step map holds for a tensor without a key, so it is not a key.
ExplicitKeys == {"K1", "K2"}
Keys == ExplicitKeys \cup {NoneKey}

Versions == {NoneVersion, 1}

(***************************************************************************)
(* Model.inputs / Model.outputs: the view of a configuration's tensors as  *)
(* ExposedTensors, -1 read back as None.  A dict: a later entry of the     *)
(* same name replaces an earlier one.                                      *)
(***************************************************************************)
ShapeOfDims(dims) == [i \in 1..Len(dims) |-> IF dims[i] # -1 THEN dims[i] ELSE NoneDim]

ExposedTensor(model, name, shape) == [model |-> model, name |-> name, shape |-> shape]

NamesOf(exposed) == {exposed[i].name : i \in 1..Len(exposed)}

LastIndexOf(exposed, n) ==
    CHOOSE i \in 1..Len(exposed) :
        /\ exposed[i].name = n
        /\ \A j \in (i+1)..Len(exposed) : exposed[j].name # n

ExposedView(model, exposed) ==
    [n \in NamesOf(exposed) |->
        ExposedTensor(model, n, ShapeOfDims(exposed[LastIndexOf(exposed, n)].dims))]

inputs(model, cfg) == ExposedView(model, cfg.input)

outputs(model, cfg) == ExposedView(model, cfg.output)

\* The tensors of the member models, as a caller obtains them.
MemberInputs ==
    UNION {{ExposedView(m, MemberConfigInput(m))[n] : n \in NamesOf(MemberConfigInput(m))}
           : m \in ModelNames}

MemberOutputs ==
    UNION {{ExposedView(m, MemberConfigOutput(m))[n] : n \in NamesOf(MemberConfigOutput(m))}
           : m \in ModelNames}

(***************************************************************************)
(* The configuration object (gravswell.quiver.model_config.ModelConfig):   *)
(* its three adders append to the repeated fields of the message.          *)
(***************************************************************************)
EmptyMap == [n \in TensorNames |-> ""]

DimsOfShape(shape) == [i \in 1..Len(shape) |-> IF shape[i] = NoneDim THEN -1 ELSE shape[i]]

config_add_step(cfg, model, version) ==
    [cfg EXCEPT !.step = Append(@,
        [model_name |-> model,
         model_version |-> IF version = NoneVersion THEN -1 ELSE version,
         input_map |-> EmptyMap,
         output_map |-> EmptyMap])]

config_add_input(cfg, name, shape) ==
    [cfg EXCEPT !.input = Append(@, [name |-> name, dims |-> DimsOfShape(shape)])]

config_add_output(cfg, name, shape) ==
    [cfg EXCEPT !.output = Append(@, [name |-> name, dims |-> DimsOfShape(shape)])]

EmptyConfig == [step |-> << >>, input |-> << >>, output |-> << >>]

NoTensor == ExposedTensor("", "", << >>)

Outcome(cfg, result, ret) == [cfg |-> cfg, result |-> result, ret |-> ret]

(***************************************************************************)
(* EnsembleModel.models: the member model of each step, in step order.     *)
(* The property reads the steps through `self._config`, taken here to be   *)
(* the message `self.config` wraps; a Model is identified by its name.     *)
(***************************************************************************)
models(cfg) == [i \in 1..Len(cfg.step) |-> cfg.step[i].model_name]

InModels(model, cfg) == \E i \in 1..Len(cfg.step) : models(cfg)[i] = model

(***************************************************************************)
(* `if tensor.model not in self.models: self.config.add_step(...)`, the    *)
(* opening of add_input, add_output and of pipe's loop over its tensors.   *)
(***************************************************************************)
\* EnsureStep putting the new step in front of the others.
EnsureStep_InFront(cfg, model, version) ==
    IF ~InModels(model, cfg)
    THEN [cfg EXCEPT !.step =
            SubSeq(config_add_step(cfg, model, version).step, Len(cfg.step) + 1,
                   Len(cfg.step) + 1) \o cfg.step]
    ELSE cfg

\* EnsureStep without the membership test.
EnsureStepAlways(cfg, model, version) == config_add_step(cfg, model, version)

EnsureStep(cfg, model, version) ==
    IF ~InModels(model, cfg) THEN config_add_step(cfg, model, version) ELSE cfg

(***************************************************************************)
(* EnsembleModel._update_step_map: every step of the tensor's model gets   *)
(* step.<exposed_type>_map[tensor.name] = key.                             *)
(***************************************************************************)
update_step_map(cfg, tensor, key, exposed_type) ==
    [cfg EXCEPT !.step =
        [i \in 1..Len(cfg.step) |->
            IF cfg.step[i].model_name = tensor.model
            THEN IF exposed_type = "input"
                 THEN [cfg.step[i] EXCEPT !.input_map[tensor.name] = key]
                 ELSE [cfg.step[i] EXCEPT !.output_map[tensor.name] = key]
            ELSE cfg.step[i]]]

\* `key or tensor.name`
KeyOr(key, name) == IF key = NoneKey \/ key = "" THEN name ELSE key

(***************************************************************************)
(* EnsembleModel.add_input.  The ValueError "Already added input using key *)
(* ..." is the spec's DuplicateKeyError.                                   *)
(***************************************************************************)
add_input(self, cfg, input, version, key) ==
    LET c1 == EnsureStep(cfg, input.model, version)
        k  == KeyOr(key, input.name)
    IN  IF k \notin DOMAIN inputs(self, c1)
        THEN LET c2 == config_add_input(c1, k, input.shape)
                 c3 == update_step_map(c2, input, k, "input")
             IN  Outcome(c3, "ok", inputs(self, c3)[k])
        ELSE Outcome(c1, "DuplicateKeyError", NoTensor)

(***************************************************************************)
(* EnsembleModel.add_output.  Line 322 tests the key against self.inputs.  *)
(***************************************************************************)
add_output(self, cfg, output, version, key) ==
    LET c1 == EnsureStep(cfg, output.model, version)
        k  == KeyOr(key, output.name)
    IN  IF k \notin DOMAIN inputs(self, c1)
        THEN LET c2 == config_add_output(c1, k, output.shape)
                 c3 == update_step_map(c2, output, k, "output")
             IN  Outcome(c3, "ok", outputs(self, c3)[k])
        ELSE Outcome(c1, "DuplicateKeyError", NoTensor)

(***************************************************************************)
(* EnsembleModel.pipe.  `for step in ...: if step.model_name == ...: break`*)
(* leaves `step` at the first step of the model.  The three ValueErrors    *)
(* are the spec's ShapeMismatchError (392) and KeyConflictError (427, 453).*)
(***************************************************************************)
FindStep(cfg, model) ==
    cfg.step[CHOOSE i \in 1..Len(cfg.step) :
                /\ cfg.step[i].model_name = model
                /\ \A j \in 1..(i-1) : cfg.step[j].model_name # model]

\* PipeInbound binding the inbound tensor whatever key it already has.
PipeInbound_Overwrite(cfg, inbound, key) ==
    Outcome(update_step_map(cfg, inbound, key, "input"), "ok", NoTensor)

\* PipeInbound refusing every inbound tensor that already has a key.
PipeInbound_NoRepeat(cfg, inbound, key) ==
    LET existing_key == FindStep(cfg, inbound.model).input_map[inbound.name]
    IN  IF existing_key = ""
        THEN Outcome(update_step_map(cfg, inbound, key, "input"), "ok", NoTensor)
        ELSE Outcome(cfg, "KeyConflictError", NoTensor)

PipeInbound(cfg, inbound, key) ==
    LET existing_key == FindStep(cfg, inbound.model).input_map[inbound.name]
    IN  IF existing_key = ""
        THEN Outcome(update_step_map(cfg, inbound, key, "input"), "ok", NoTensor)
        ELSE IF existing_key # key
        THEN Outcome(cfg, "KeyConflictError", NoTensor)
        ELSE Outcome(cfg, "ok", NoTensor)

\* PipeOutbound passing the caller's key on instead of the existing one.
PipeOutbound_IgnoreExisting(cfg, outbound, inbound, key) ==
    LET existing_key == FindStep(cfg, outbound.model).output_map[outbound.name]
        k == KeyOr(key, outbound.name)
    IN  IF existing_key = ""
        THEN PipeInbound(update_step_map(cfg, outbound, k, "output"), inbound, k)
        ELSE IF key # NoneKey /\ existing_key # key
        THEN Outcome(cfg, "KeyConflictError", NoTensor)
        ELSE PipeInbound(cfg, inbound, k)

\* PipeOutbound naming a fresh key after the inbound tensor.
PipeOutbound_InboundName(cfg, outbound, inbound, key) ==
    LET existing_key == FindStep(cfg, outbound.model).output_map[outbound.name]
    IN  IF existing_key = ""
        THEN LET k == KeyOr(key, inbound.name)
             IN  PipeInbound(update_step_map(cfg, outbound, k, "output"), inbound, k)
        ELSE IF key # NoneKey /\ existing_key # key
        THEN Outcome(cfg, "KeyConflictError", NoTensor)
        ELSE PipeInbound(cfg, inbound, existing_key)

PipeOutbound(cfg, outbound, inbound, key) ==
    LET existing_key == FindStep(cfg, outbound.model).output_map[outbound.name]
    IN  IF existing_key = ""
        THEN LET k == KeyOr(key, outbound.name)
             IN  PipeInbound(update_step_map(cfg, outbound, k, "output"), inbound, k)
        ELSE IF key # NoneKey /\ existing_key # key
        THEN Outcome(cfg, "KeyConflictError", NoTensor)
        ELSE PipeInbound(cfg, inbound, existing_key)

\* pipe comparing the shapes only after the steps were added.
pipe_ShapeCheckLate(cfg, outbound, inbound, key) ==
    LET c1 == EnsureStep(cfg, inbound.model, NoneVersion)
        c2 == EnsureStep(c1, outbound.model, NoneVersion)
    IN  IF outbound.shape # inbound.shape
        THEN Outcome(c2, "ShapeMismatchError", NoTensor)
        ELSE PipeOutbound(c2, outbound, inbound, key)

pipe(cfg, outbound, inbound, key) ==
    IF outbound.shape # inbound.shape
    THEN Outcome(cfg, "ShapeMismatchError", NoTensor)
    ELSE LET c1 == EnsureStep(cfg, inbound.model, NoneVersion)
             c2 == EnsureStep(c1, outbound.model, NoneVersion)
         IN  PipeOutbound(c2, outbound, inbound, key)

(***************************************************************************)
(* State: the ensemble's configuration, and the record of the last call    *)
(* made on it (its arguments, how it ended, what it returned, and the      *)
(* configuration it started from).                                         *)
(***************************************************************************)
\* `fs` is the storage behind the repository and `fsbefore` the storage the
\* last call started from; the ensemble calls do not touch storage.
\* `exports` holds the export_version calls that are under way when two of
\* them are interleaved, and is empty otherwise.
VARIABLES config, call, before, ncalls, fs, fsbefore, exports

vars == <<config, call, before, ncalls, fs, fsbefore, exports>>

NoExports == << >>

\* A storage holding nothing: the directories and the files in it, each a
\* path, a path being the sequence of its components below the root.
NoStorage == [dirs |-> {}, files |-> {}]

Ensemble == "E"

NoCall == [op |-> "none", tensor |-> NoTensor, inbound |-> NoTensor,
           version |-> NoneVersion, key |-> NoneKey,
           result |-> "ok", ret |-> NoTensor]

Init ==
    /\ config = EmptyConfig
    /\ call = NoCall
    /\ before = EmptyConfig
    /\ ncalls = 0
    /\ fs = NoStorage
    /\ fsbefore = NoStorage
    /\ exports = NoExports

Finish(op, tensor, inbound, version, key, out) ==
    /\ config' = out.cfg
    /\ call' = [op |-> op, tensor |-> tensor, inbound |-> inbound,
                version |-> version, key |-> key,
                result |-> out.result, ret |-> out.ret]
    /\ before' = config
    /\ ncalls' = ncalls + 1
    /\ UNCHANGED <<fs, fsbefore, exports>>

AddInput ==
    /\ ncalls < MaxCalls
    /\ \E input \in MemberInputs, version \in Versions, key \in Keys :
          \* the version is read only when the model's step is made
          /\ InModels(input.model, config) => version = NoneVersion
          /\ Finish("add_input", input, NoTensor, version, key,
                 add_input(Ensemble, config, input, version, key))

AddOutput ==
    /\ ncalls < MaxCalls
    /\ \E output \in MemberOutputs, version \in Versions, key \in Keys :
          \* the version is read only when the model's step is made
          /\ InModels(output.model, config) => version = NoneVersion
          /\ Finish("add_output", output, NoTensor, version, key,
                 add_output(Ensemble, config, output, version, key))

Pipe ==
    /\ ncalls < MaxCalls
    /\ \E outbound \in MemberOutputs, inbound \in MemberInputs, key \in Keys :
          Finish("pipe", outbound, inbound, NoneVersion, key,
                 pipe(config, outbound, inbound, key))

Next == AddInput \/ AddOutput \/ Pipe

Spec == Init /\ [][Next]_vars

TypeOK ==
    /\ ncalls \in 0..MaxCalls
    /\ call.op \in {"none", "add_input", "add_output", "pipe"}
    /\ call.result \in {"ok", "DuplicateKeyError", "ShapeMismatchError", "KeyConflictError"}
    /\ \A i \in 1..Len(config.step) : config.step[i].model_name \in ModelNames

(***************************************************************************)
(* Vocabulary of the properties.                                           *)
(***************************************************************************)
ResolvedKey == KeyOr(call.key, call.tensor.name)

StepsOf(cfg, model) == {i \in 1..Len(cfg.step) : cfg.step[i].model_name = model}

OutputKey(cfg, tensor) == FindStep(cfg, tensor.model).output_map[tensor.name]

InputKey(cfg, tensor) == FindStep(cfg, tensor.model).input_map[tensor.name]

DistinctNames(exposed) ==
    \A i, j \in 1..Len(exposed) : exposed[i].name = exposed[j].name => i = j

TensorA_y == ExposedTensor("A", "y", <<NoneDim, 10>>)

TensorB_z == ExposedTensor("B", "z", <<NoneDim, 10>>)

\* C1: add_input with a key that already names an ensemble input fails with
\* DuplicateKeyError and leaves the whole configuration as it was, also when
\* the tensor's model had no step yet.
C1_AddInputDuplicateNoMutation ==
    (call.op = "add_input" /\ ResolvedKey \in NamesOf(before.input))
        => (call.result = "DuplicateKeyError" /\ config = before)

\* C2: add_output with a key that already names an ensemble output fails with
\* DuplicateKeyError, so no two declared ensemble outputs ever share a key.
C2_AddOutputDuplicateFails ==
    /\ (call.op = "add_output" /\ ResolvedKey \in NamesOf(before.output))
          => call.result = "DuplicateKeyError"
    /\ DistinctNames(config.output)

\* C3: add_output looks at the ensemble's outputs only: with a key that names
\* an ensemble input but no ensemble output it succeeds, declares the output
\* and sets the step's output_map entry of the tensor to the key.
C3_AddOutputIgnoresInputs ==
    (/\ call.op = "add_output"
     /\ ResolvedKey \in NamesOf(before.input)
     /\ ResolvedKey \notin NamesOf(before.output))
        => /\ call.result = "ok"
           /\ ResolvedKey \in NamesOf(config.output)
           /\ OutputKey(config, call.tensor) = ResolvedKey

\* C4: pipe between tensors of different shapes fails with ShapeMismatchError
\* and changes nothing: no step appended, no map entry changed.
C4_PipeShapeMismatch ==
    (call.op = "pipe" /\ call.tensor.shape # call.inbound.shape)
        => (call.result = "ShapeMismatchError" /\ config = before)

C4_Witness ==
    /\ call.op = "pipe"
    /\ call.tensor.shape # call.inbound.shape
    /\ call.result = "ShapeMismatchError"
    /\ ~InModels(call.tensor.model, config)
    /\ ~InModels(call.inbound.model, config)

\* C5: right after a successful pipe(a, b, key=K1), pipe(a, c, key=K2) with
\* K2 # K1 and equal shapes fails with KeyConflictError and leaves the
\* configuration as the first call left it, whatever the inbound tensor c.
C5_PipeSecondKeyConflict ==
    [][(/\ call.op = "pipe" /\ call.result = "ok" /\ call.key \in ExplicitKeys
        /\ call'.op = "pipe" /\ call'.tensor = call.tensor
        /\ call'.key \in ExplicitKeys /\ call'.key # call.key
        /\ call'.tensor.shape = call'.inbound.shape)
          => (call'.result = "KeyConflictError" /\ config' = config)]_vars

\* C6: pipe is idempotent: the same pipe(a, b, key) made again right after it
\* succeeded succeeds again and leaves every step and map entry (hence the
\* key recorded for a and for b) as the first call left them.
C6_PipeIdempotent ==
    [][(/\ call.op = "pipe" /\ call.result = "ok"
        /\ call'.op = "pipe" /\ call'.tensor = call.tensor
        /\ call'.inbound = call.inbound /\ call'.key = call.key)
          => (/\ call'.result = "ok"
              /\ config' = config
              /\ OutputKey(config', call.tensor) = OutputKey(config, call.tensor)
              /\ InputKey(config', call.inbound) = InputKey(config, call.inbound))]_vars

\* A pipe call that found its own routing already recorded: the outbound
\* tensor under the key the call resolves to, the inbound tensor under it too.
C6_Witness ==
    /\ call.op = "pipe"
    /\ call.result = "ok"
    /\ call.key \in ExplicitKeys
    /\ InModels(call.tensor.model, before)
    /\ InModels(call.inbound.model, before)
    /\ OutputKey(before, call.tensor) = call.key
    /\ InputKey(before, call.inbound) = call.key
    /\ config = before

\* C7: on an ensemble without steps, pipe(o, i) with equal shapes and no key
\* succeeds; afterwards there is exactly one step for each of the two models
\* and no other, o's step maps o.name to the key o.name, i's step maps i.name
\* to the same key, and the ensemble declares no input and no output.
C7_PipeOnEmptyEnsemble ==
    (/\ call.op = "pipe"
     /\ before.step = << >>
     /\ call.tensor.shape = call.inbound.shape
     /\ call.key = NoneKey)
        => /\ call.result = "ok"
           /\ Cardinality(StepsOf(config, call.tensor.model)) = 1
           /\ Cardinality(StepsOf(config, call.inbound.model)) = 1
           /\ \A i \in 1..Len(config.step) :
                 config.step[i].model_name \in {call.tensor.model, call.inbound.model}
           /\ OutputKey(config, call.tensor) = call.tensor.name
           /\ InputKey(config, call.inbound) = call.tensor.name
           /\ config.input = << >>
           /\ config.output = << >>

C7_Witness ==
    /\ call.op = "pipe"
    /\ before = EmptyConfig
    /\ call.tensor = TensorA_y
    /\ call.inbound = TensorB_z
    /\ call.key = NoneKey
    /\ call.result = "ok"
    /\ Len(config.step) = 2
    /\ OutputKey(config, TensorA_y) = "y"
    /\ InputKey(config, TensorB_z) = "y"

\* C8: whatever calls were made, failing ones and pipes inside one model
\* included, a member model has at most one step.
C8_OneStepPerModel ==
    \A m \in ModelNames : Cardinality(StepsOf(config, m)) <= 1

C8_Witness ==
    /\ call.op = "pipe"
    /\ call.tensor.model = call.inbound.model
    /\ ~InModels(call.tensor.model, before)
    /\ call.result = "ok"
    /\ Cardinality(StepsOf(config, call.tensor.model)) = 1

\* C9: first writer wins on the outbound side: an output_map entry holding a
\* key is never changed to another key by a later add_output or pipe.
C9_OutputKeyStable ==
    \A i \in 1..Len(before.step) : \A n \in TensorNames :
        before.step[i].output_map[n] # ""
            => /\ i <= Len(config.step)
               /\ config.step[i].output_map[n] = before.step[i].output_map[n]

\* C10: an inbound tensor is bound to one key for good: an input_map entry
\* holding a key is never changed to another key by a later add_input or pipe.
C10_InputKeyStable ==
    \A i \in 1..Len(before.step) : \A n \in TensorNames :
        before.step[i].input_map[n] # ""
            => /\ i <= Len(config.step)
               /\ config.step[i].input_map[n] = before.step[i].input_map[n]

(***************************************************************************)
(* More vocabulary: the key a tensor has in a configuration, "" when its   *)
(* model has no step; the keys in use at the ensemble boundary.            *)
(***************************************************************************)
OutputKeyOrEmpty(cfg, tensor) ==
    IF InModels(tensor.model, cfg) THEN OutputKey(cfg, tensor) ELSE ""

InputKeyOrEmpty(cfg, tensor) ==
    IF InModels(tensor.model, cfg) THEN InputKey(cfg, tensor) ELSE ""

Boundary(cfg) == NamesOf(cfg.input) \cup NamesOf(cfg.output)

FirstIndexOf(exposed, n) ==
    CHOOSE i \in 1..Len(exposed) :
        /\ exposed[i].name = n
        /\ \A j \in 1..(i-1) : exposed[j].name # n

\* Every explicit key declared looks up with the shape it was first declared with.
LookupKeepsShape(exposed, view) ==
    \A n \in NamesOf(exposed) \cap ExplicitKeys :
        view[n].shape = ShapeOfDims(exposed[FirstIndexOf(exposed, n)].dims)

\* The part of C11 about the call itself: with an explicit key not in use at
\* the boundary the call succeeds, returns a tensor of T's shape, the key looks
\* up with T's shape, T's model has a step and its map entry for T is the key.
AddWithFreshKeySucceeds ==
    (/\ call.op \in {"add_input", "add_output"}
     /\ call.key \in ExplicitKeys
     /\ call.key \notin Boundary(before))
        => /\ call.result = "ok"
           /\ call.ret.shape = call.tensor.shape
           /\ InModels(call.tensor.model, config)
           /\ IF call.op = "add_input"
              THEN /\ call.key \in DOMAIN inputs(Ensemble, config)
                   /\ inputs(Ensemble, config)[call.key].shape = call.tensor.shape
                   /\ InputKey(config, call.tensor) = call.key
              ELSE /\ call.key \in DOMAIN outputs(Ensemble, config)
                   /\ outputs(Ensemble, config)[call.key].shape = call.tensor.shape
                   /\ OutputKey(config, call.tensor) = call.key

\* C11: add_input (resp. add_output) of a tensor T with an explicit key K not
\* in use at the boundary succeeds, returns a tensor of T's shape, gives T's
\* model a step whose input_map (resp. output_map) entry for T is K, and K
\* looks up with T's shape in the inputs (resp. outputs) from then on.
C11_AddWithFreshKey ==
    /\ AddWithFreshKeySucceeds
    /\ LookupKeepsShape(config.input, inputs(Ensemble, config))
    /\ LookupKeepsShape(config.output, outputs(Ensemble, config))

\* The statement of C12 as made: when the outbound tensor of pipe has the key
\* E already and the call gives no key or E, the inbound tensor's entry
\* becomes E and the outbound entry stays E.
C12_PipeReusesKeyAlways ==
    (/\ call.op = "pipe"
     /\ call.tensor.shape = call.inbound.shape
     /\ OutputKeyOrEmpty(before, call.tensor) # ""
     /\ call.key \in {NoneKey, OutputKeyOrEmpty(before, call.tensor)})
        => /\ OutputKey(config, call.tensor) = OutputKeyOrEmpty(before, call.tensor)
           /\ InputKey(config, call.inbound) = OutputKeyOrEmpty(before, call.tensor)

\* C12 (amended): when the outbound tensor of pipe has the key E already and
\* the call gives no key or E, the outbound entry stays E; the call succeeds
\* and the inbound tensor's entry becomes E unless the inbound tensor holds
\* another key, and then the call fails with KeyConflictError and the inbound
\* entry keeps that key.
C12_PipeReusesKey ==
    (/\ call.op = "pipe"
     /\ call.tensor.shape = call.inbound.shape
     /\ OutputKeyOrEmpty(before, call.tensor) # ""
     /\ call.key \in {NoneKey, OutputKeyOrEmpty(before, call.tensor)})
        => /\ OutputKey(config, call.tensor) = OutputKeyOrEmpty(before, call.tensor)
           /\ IF InputKeyOrEmpty(before, call.inbound)
                    \in {"", OutputKeyOrEmpty(before, call.tensor)}
              THEN /\ call.result = "ok"
                   /\ InputKey(config, call.inbound) = OutputKeyOrEmpty(before, call.tensor)
              ELSE /\ call.result = "KeyConflictError"
                   /\ InputKey(config, call.inbound) = InputKeyOrEmpty(before, call.inbound)

\* A fan-out: the outbound tensor had a key under an explicit name, the
\* inbound tensor had none, and the call with no key bound it to that key.
C12_Witness ==
    /\ call.op = "pipe"
    /\ call.key = NoneKey
    /\ OutputKeyOrEmpty(before, call.tensor) \in ExplicitKeys
    /\ InputKeyOrEmpty(before, call.inbound) = ""
    /\ call.result = "ok"
    /\ InputKey(config, call.inbound) = OutputKeyOrEmpty(before, call.tensor)

\* The key pipe resolves for the outbound tensor of the last call.
PipeResolvedKey ==
    IF OutputKeyOrEmpty(before, call.tensor) = ""
    THEN KeyOr(call.key, call.tensor.name)
    ELSE OutputKeyOrEmpty(before, call.tensor)

\* C13: a pipe that resolves a key for its outbound tensor while the inbound
\* tensor's entry holds another non-empty key fails with KeyConflictError, and
\* the inbound entry keeps the key it had.
C13_PipeInboundConflict ==
    (/\ call.op = "pipe"
     /\ call.tensor.shape = call.inbound.shape
     /\ \/ OutputKeyOrEmpty(before, call.tensor) = ""
        \/ call.key \in {NoneKey, OutputKeyOrEmpty(before, call.tensor)}
     /\ InputKeyOrEmpty(before, call.inbound) \notin {"", PipeResolvedKey})
        => /\ call.result = "KeyConflictError"
           /\ InputKey(config, call.inbound) = InputKeyOrEmpty(before, call.inbound)

C13_Witness ==
    /\ call.op = "pipe"
    /\ call.tensor.shape = call.inbound.shape
    /\ OutputKeyOrEmpty(before, call.tensor) = ""
    /\ InputKeyOrEmpty(before, call.inbound) \notin {"", PipeResolvedKey}
    /\ call.result = "KeyConflictError"
    /\ InputKey(config, call.inbound) = InputKeyOrEmpty(before, call.inbound)

\* What identifies a step: its model and the version it was added with.
StepIdentity(step) == <<step.model_name, step.model_version>>

\* C26: the step sequence only grows: the steps before a call are, in the
\* same order, the first steps after it, and a step is appended only for a
\* model that had no step before the call.
C26_StepsOnlyGrow ==
    call.op \in {"add_input", "add_output", "pipe"}
        => /\ Len(before.step) <= Len(config.step)
           /\ \A i \in 1..Len(before.step) :
                  StepIdentity(config.step[i]) = StepIdentity(before.step[i])
           /\ \A i \in (Len(before.step) + 1)..Len(config.step) :
                  /\ ~InModels(config.step[i].model_name, before)
                  /\ config.step[i].model_name \in {call.tensor.model, call.inbound.model}
                  /\ \A j \in 1..Len(config.step) :
                        config.step[j].model_name = config.step[i].model_name => j = i

\* A pipe that appends the steps of two models after the one step there was.
C26_Witness ==
    /\ call.op = "pipe"
    /\ Len(before.step) = 1
    /\ Len(config.step) = 3
    /\ StepIdentity(config.step[1]) = StepIdentity(before.step[1])

\* The keys some step's output_map holds.
ProducedKeys(cfg) ==
    {cfg.step[i].output_map[n] : i \in 1..Len(cfg.step), n \in TensorNames} \ {""}

\* C28: routing consistency: in every reachable state each non-empty key of a
\* step's input_map is the key of a declared ensemble input or a key some
\* step's output_map holds.
C28_RoutingConsistent ==
    \A i \in 1..Len(config.step) : \A n \in TensorNames :
        config.step[i].input_map[n] # ""
            => config.step[i].input_map[n] \in NamesOf(config.input) \cup ProducedKeys(config)

\* C29: a pipe that fails with KeyConflictError because its inbound tensor is
\* bound to another key leaves the ensemble as it was: no key newly given to
\* the outbound tensor, no step appended.
C29_PipeAllOrNothing ==
    (/\ call.op = "pipe"
     /\ call.tensor.shape = call.inbound.shape
     /\ \/ OutputKeyOrEmpty(before, call.tensor) = ""
        \/ call.key \in {NoneKey, OutputKeyOrEmpty(before, call.tensor)}
     /\ InputKeyOrEmpty(before, call.inbound) \notin {"", PipeResolvedKey}
     /\ call.result = "KeyConflictError")
        => config = before

(***************************************************************************)
(* Platform._check_exposed_tensors (platforms/platform.py): the shapes a   *)
(* caller provides for a model's inputs or outputs against the ones its    *)
(* configuration declares.  `provided` is None, a list of shapes, or a     *)
(* dict from names to shapes (kept in insertion order):                    *)
(*    [kind |-> "None" | "list" | "dict", names |-> <<..>>, shapes |-> <<..>>] *)
(* with names empty for a list.  The model's configuration is the record   *)
(* [step, input, output] with no step.  The ValueErrors are the spec's     *)
(* ConfigurationError (98), InvalidShapeError (118) and ShapeMismatchError *)
(* (144, 164).                                                             *)
(***************************************************************************)
MaxProvided == 2

\* Calls of the validator in one behaviour: a declaration and its replay.
MaxChecks == 2

ProvidedNames == {"x", "y"}

\* (None, 4), (1, 4) and, not allowed in a declaration, (4, None)
ProvidedShapes == {<<NoneDim, 4>>, <<1, 4>>, <<4, NoneDim>>}

ExposedTypes == {"input", "output"}

SeqsUpTo(S, n) == UNION {[1..k -> S] : k \in 0..n}

NoneProvided == [kind |-> "None", names |-> << >>, shapes |-> << >>]

ProvidedLists ==
    {[kind |-> "list", names |-> << >>, shapes |-> sh] :
        sh \in SeqsUpTo(ProvidedShapes, MaxProvided)}

ProvidedDicts ==
    {[kind |-> "dict", names |-> ns, shapes |-> sh] :
        <<ns, sh>> \in {p \in SeqsUpTo(ProvidedNames, MaxProvided)
                              \X SeqsUpTo(ProvidedShapes, MaxProvided) :
                          /\ Len(p[1]) = Len(p[2])
                          /\ \A i, j \in 1..Len(p[1]) : p[1][i] = p[1][j] => i = j}}

Provided == {NoneProvided} \cup ProvidedLists \cup ProvidedDicts

\* getattr(self.model.config, exposed_type)
ExposedOf(cfg, exposed_type) == IF exposed_type = "input" THEN cfg.input ELSE cfg.output

\* f"{exposed_type}_{i}", i counted from 0
GenericName(exposed_type, i) ==
    IF exposed_type = "input"
    THEN <<"input_0", "input_1", "input_2", "input_3">>[i + 1]
    ELSE <<"output_0", "output_1", "output_2", "output_3">>[i + 1]

\* lines 103-110: a list of shapes named generically
NamedGenerically(exposed_type, provided) ==
    IF provided.kind = "dict"
    THEN provided
    ELSE [kind |-> "dict",
          names |-> [i \in 1..Len(provided.shapes) |-> GenericName(exposed_type, i - 1)],
          shapes |-> provided.shapes]

Min(a, b) == IF a <= b THEN a ELSE b

\* lines 133-139: a list of shapes paired with the declared tensors by zip
PairedWithExposed(exposed, provided) ==
    IF provided.kind = "dict"
    THEN provided
    ELSE [kind |-> "dict",
          names |-> [i \in 1..Min(Len(exposed), Len(provided.shapes)) |-> exposed[i].name],
          shapes |-> [i \in 1..Min(Len(exposed), Len(provided.shapes)) |-> provided.shapes[i]]]

\* any([i is None for i in shape[1:]])
VariableBeyondFirst(shape) == \E i \in 2..Len(shape) : shape[i] = NoneDim

\* getattr(self.model.config, "add_" + exposed_type)(name, shape, dtype)
add_fn(cfg, exposed_type, name, shape) ==
    IF exposed_type = "input"
    THEN config_add_input(cfg, name, shape)
    ELSE config_add_output(cfg, name, shape)

\* lines 112-129: the loop over the provided items from item i on; a shape
\* that is refused ends it with the items before it already declared
RECURSIVE DeclareFrom(_, _, _, _)
DeclareFrom(cfg, exposed_type, provided, i) ==
    IF i > Len(provided.names)
    THEN Outcome(cfg, "ok", NoTensor)
    ELSE IF VariableBeyondFirst(provided.shapes[i])
    THEN Outcome(cfg, "InvalidShapeError", NoTensor)
    ELSE DeclareFrom(add_fn(cfg, exposed_type, provided.names[i], provided.shapes[i]),
                     exposed_type, provided, i + 1)

\* [i or -1 for i in provided[ex.name]]
ProvidedShape(shape) == [i \in 1..Len(shape) |-> IF shape[i] = NoneDim THEN -1 ELSE shape[i]]

\* The comparison without the None to -1 mapping.
ShapesMatch_Raw(ex, provided) ==
    \E i \in 1..Len(provided.names) :
        /\ provided.names[i] = ex.name
        /\ ex.dims = provided.shapes[i]

\* lines 155-160: config_shape == provided_shape for the declared tensor ex
ShapesMatch(ex, provided) ==
    \E i \in 1..Len(provided.names) :
        /\ provided.names[i] = ex.name
        /\ ex.dims = ProvidedShape(provided.shapes[i])

\* line 141, negated: as many provided as declared, under the same names
NamesMatch(exposed, provided) ==
    /\ Len(provided.names) = Len(exposed)
    /\ {provided.names[i] : i \in 1..Len(provided.names)} = NamesOf(exposed)

\* The comparison of the shapes left out.
CompareWithExposed_NamesOnly(cfg, exposed, provided) ==
    IF ~NamesMatch(exposed, provided)
    THEN Outcome(cfg, "ShapeMismatchError", NoTensor)
    ELSE Outcome(cfg, "ok", NoTensor)

\* lines 130-168
CompareWithExposed(cfg, exposed, provided) ==
    IF ~NamesMatch(exposed, provided)
    THEN Outcome(cfg, "ShapeMismatchError", NoTensor)
    ELSE IF \E i \in 1..Len(exposed) : ~ShapesMatch(exposed[i], provided)
    THEN Outcome(cfg, "ShapeMismatchError", NoTensor)
    ELSE Outcome(cfg, "ok", NoTensor)

\* Nothing declared and nothing provided taken as nothing to do.
check_exposed_tensors_NoneIsFine(cfg, exposed_type, provided) ==
    LET exposed == ExposedOf(cfg, exposed_type)
    IN  IF provided.kind = "None"
        THEN Outcome(cfg, "ok", NoTensor)
        ELSE IF Len(exposed) = 0
        THEN DeclareFrom(cfg, exposed_type, NamedGenerically(exposed_type, provided), 1)
        ELSE CompareWithExposed(cfg, exposed, PairedWithExposed(exposed, provided))

\* None refused whatever the configuration declares.
check_exposed_tensors_NoneRefused(cfg, exposed_type, provided) ==
    LET exposed == ExposedOf(cfg, exposed_type)
    IN  IF provided.kind = "None"
        THEN Outcome(cfg, "ConfigurationError", NoTensor)
        ELSE IF Len(exposed) = 0
        THEN DeclareFrom(cfg, exposed_type, NamedGenerically(exposed_type, provided), 1)
        ELSE CompareWithExposed(cfg, exposed, PairedWithExposed(exposed, provided))

check_exposed_tensors(cfg, exposed_type, provided) ==
    LET exposed == ExposedOf(cfg, exposed_type)
    IN  IF Len(exposed) = 0 /\ provided.kind = "None"
        THEN Outcome(cfg, "ConfigurationError", NoTensor)
        ELSE IF Len(exposed) = 0
        THEN DeclareFrom(cfg, exposed_type, NamedGenerically(exposed_type, provided), 1)
        ELSE IF provided.kind # "None"
        THEN CompareWithExposed(cfg, exposed, PairedWithExposed(exposed, provided))
        ELSE Outcome(cfg, "ok", NoTensor)

(***************************************************************************)
(* The validator on one model: `config` is the model's configuration,      *)
(* `call` the last _check_exposed_tensors call, `before` the configuration *)
(* it started from.                                                        *)
(***************************************************************************)
NoCheck == [op |-> "none", exposed_type |-> "input", provided |-> NoneProvided,
            result |-> "ok"]

InitShapes ==
    /\ config = EmptyConfig
    /\ call = NoCheck
    /\ before = EmptyConfig
    /\ ncalls = 0
    /\ fs = NoStorage
    /\ fsbefore = NoStorage
    /\ exports = NoExports

CheckExposedTensors ==
    /\ ncalls < MaxChecks
    /\ \E exposed_type \in ExposedTypes, provided \in Provided :
          LET out == check_exposed_tensors(config, exposed_type, provided)
          IN  /\ config' = out.cfg
              /\ call' = [op |-> "check", exposed_type |-> exposed_type,
                          provided |-> provided, result |-> out.result]
              /\ before' = config
              /\ ncalls' = ncalls + 1
              /\ UNCHANGED <<fs, fsbefore, exports>>

NextShapes == CheckExposedTensors

SpecShapes == InitShapes /\ [][NextShapes]_vars

(***************************************************************************)
(* Properties of the validator.                                            *)
(***************************************************************************)
DeclaredBefore == ExposedOf(before, call.exposed_type)

ProvidedNameSet == {call.provided.names[i] : i \in 1..Len(call.provided.names)}

\* C14: with no tensor of the kind declared and provided = None the validator
\* fails with ConfigurationError and leaves the configuration as it was.
C14_NothingToInfer ==
    (call.op = "check" /\ Len(DeclaredBefore) = 0 /\ call.provided.kind = "None")
        => (call.result = "ConfigurationError" /\ config = before)

\* The outputs asked for with None while inputs are declared already.
C14_Witness ==
    /\ call.op = "check"
    /\ call.exposed_type = "output"
    /\ call.provided.kind = "None"
    /\ before.input # << >>
    /\ before.output = << >>
    /\ call.result = "ConfigurationError"
    /\ config = before

\* C15: with tensors declared and a mapping provided whose names are not the
\* declared names, or whose shape for a declared name is not the recorded one
\* once None is read as -1, the validator fails with ShapeMismatchError and
\* leaves the configuration as it was.
C15_MappingMismatch ==
    (/\ call.op = "check"
     /\ Len(DeclaredBefore) > 0
     /\ call.provided.kind = "dict"
     /\ \/ ProvidedNameSet # NamesOf(DeclaredBefore)
        \/ \E i \in 1..Len(DeclaredBefore) : \E j \in 1..Len(call.provided.names) :
              /\ call.provided.names[j] = DeclaredBefore[i].name
              /\ ProvidedShape(call.provided.shapes[j]) # DeclaredBefore[i].dims)
        => (call.result = "ShapeMismatchError" /\ config = before)

\* Declared {x: (None, 4)}, provided {y: (None, 4)}.
C15_Witness ==
    /\ call.op = "check"
    /\ call.exposed_type = "input"
    /\ before.input = << [name |-> "x", dims |-> <<-1, 4>>] >>
    /\ call.provided = [kind |-> "dict", names |-> <<"y">>,
                        shapes |-> << <<NoneDim, 4>> >>]
    /\ call.result = "ShapeMismatchError"
    /\ config = before

\* C16: round trip: the call that declared shapes on an empty configuration,
\* made again with the same shapes, succeeds and leaves the configuration as
\* the first call left it.
C16_RoundTrip ==
    [][(/\ call.op = "check" /\ call.result = "ok"
        /\ Len(DeclaredBefore) = 0
        /\ call.provided.kind # "None"
        /\ call'.op = "check"
        /\ call'.exposed_type = call.exposed_type
        /\ call'.provided = call.provided)
          => (call'.result = "ok" /\ config' = config)]_vars

\* A list with a variable first axis validated against the configuration
\* that declaring this very list on no tensors produces.
C16_Witness ==
    /\ call.op = "check"
    /\ call.result = "ok"
    /\ call.provided.kind = "list"
    /\ \E i \in 1..Len(call.provided.shapes) : call.provided.shapes[i][1] = NoneDim
    /\ DeclaredBefore =
         ExposedOf(DeclareFrom(EmptyConfig, call.exposed_type,
                               NamedGenerically(call.exposed_type, call.provided), 1).cfg,
                   call.exposed_type)
    /\ config = before

\* C22: with tensors declared and provided a list whose length is not the
\* number of declared tensors, shorter or longer, the call fails with
\* ShapeMismatchError; the shapes beyond the declared tensors are not ignored.
C22_ListLengthMismatch ==
    (/\ call.op = "check"
     /\ Len(DeclaredBefore) > 0
     /\ call.provided.kind = "list"
     /\ Len(call.provided.shapes) # Len(DeclaredBefore))
        => call.result = "ShapeMismatchError"

\* C23: with a tensor declared for the kind and provided = None the call
\* succeeds and leaves the configuration as it was.
C23_InferFromConfig ==
    (/\ call.op = "check"
     /\ Len(DeclaredBefore) > 0
     /\ call.provided.kind = "None")
        => (call.result = "ok" /\ config = before)

\* None given for the inputs after a call declared an input.
C23_Witness ==
    /\ call.op = "check"
    /\ call.exposed_type = "input"
    /\ call.provided.kind = "None"
    /\ Len(before.input) > 0
    /\ call.result = "ok"
    /\ config = before

\* C30: when a call on a configuration that declares nothing for the kind
\* fails with InvalidShapeError, no tensor of the call has been added to the
\* configuration, wherever the refused shape stands among the provided ones.
C30_DeclareAllOrNothing ==
    (/\ call.op = "check"
     /\ Len(DeclaredBefore) = 0
     /\ call.result = "InvalidShapeError")
        => config = before

(***************************************************************************)
(* LocalFileSystem (io/local.py).  A path is the sequence of its           *)
(* components below the file system's root, so join is concatenation and   *)
(* the root is the empty path.  The storage is the set of directories and  *)
(* the set of files that exist.                                            *)
(***************************************************************************)
join(a, b) == a \o b

Root == << >>

IsPrefix(p, q) == Len(p) <= Len(q) /\ SubSeq(q, 1, Len(p)) = p

Prefixes(p) == {SubSeq(p, 1, k) : k \in 0..Len(p)}

\* os.path.exists
exists(st, path) == path \in st.dirs \cup st.files

\* LocalFileSystem.isdir
isdir(st, path) == path \in st.dirs

\* soft_makedirs reporting a directory as created whether or not it made it.
soft_makedirs_AlwaysTrue(st, path) ==
    IF ~exists(st, path)
    THEN [fs |-> [st EXCEPT !.dirs = @ \cup Prefixes(path)], created |-> TRUE]
    ELSE [fs |-> st, created |-> TRUE]

\* LocalFileSystem.soft_makedirs: os.makedirs makes the missing parents too
soft_makedirs(st, path) ==
    IF ~exists(st, path)
    THEN [fs |-> [st EXCEPT !.dirs = @ \cup Prefixes(path)], created |-> TRUE]
    ELSE [fs |-> st, created |-> FALSE]

\* os.listdir: the names of the entries of a directory (in no given order)
Entries(st, path) ==
    {p[Len(path) + 1] : p \in {q \in st.dirs \cup st.files :
                                  Len(q) = Len(path) + 1 /\ IsPrefix(path, q)}}

\* LocalFileSystem.remove of a directory (shutil.rmtree) or a file
remove(st, path) ==
    IF isdir(st, path)
    THEN [dirs |-> {q \in st.dirs : ~IsPrefix(path, q)},
          files |-> {q \in st.files : ~IsPrefix(path, q)}]
    ELSE [st EXCEPT !.files = @ \ {path}]

\* LocalFileSystem.write: open(path, mode) creates or truncates the file
write(st, path) == [st EXCEPT !.files = @ \cup {path}]

(***************************************************************************)
(* Model.export_version (model.py:177-255) on one model of a repository.   *)
(* What the exporter and the storage do inside the call is an input of it: *)
(*   ext.output_shapes  what _get_output_shapes returns (kind "raise": it  *)
(*                      raises)                                            *)
(*   ext.export         "ok": _export writes the artifact; "raise": it     *)
(*                      raises; "partial": it raises after writing         *)
(*   ext.write          "ok": config.write() writes the configuration      *)
(*                      file; "raise": it raises                           *)
(***************************************************************************)
ModelName == "m"

ModelPlatform == "ONNX"

ConfigFile == "config.pbtxt"

\* conventions[self.platform]
ConventionFilename(platform) ==
    CASE platform = "ONNX" -> "model.onnx"
      [] platform = "SAVEDMODEL" -> "model.savedmodel"
      [] platform = "TENSORRT" -> "model.plan"
      [] platform = "ENSEMBLE" -> "model.empty"

\* `version: Optional[int] = None`
VersionNotGiven == -1

\* str(version) and int(f) on the names of version directories
StrOfInt(v) == <<"0", "1", "2", "3", "4">>[v + 1]

IsIntName(f) == \E v \in 0..4 : StrOfInt(v) = f

IntOfStr(f) == CHOOSE v \in 0..4 : StrOfInt(v) = f

Max(S) == CHOOSE v \in S : \A w \in S : w <= v

\* Model.versions: the entries f of the model's directory for which isdir(f)
\* holds and int(f) succeeds.  isdir is handed the entry's name, which the
\* file system reads as a path below its root.
versions(st, name) ==
    {IntOfStr(f) : f \in {g \in Entries(st, join(Root, <<name>>)) :
                              isdir(st, <<g>>) /\ IsIntName(g)}}

\* The Exporter subclasses in enumeration order, and the types of model
\* function a caller passes.
Exporters ==
    << [name |-> "TorchOnnx", platform |-> "ONNX", handles |-> {"torch"}],
       [name |-> "TorchTensorRT", platform |-> "TENSORRT", handles |-> {"torch", "Model"}],
       \* a subclass of TorchOnnx that keeps its platform and its handles
       [name |-> "TorchOnnxSubclass", platform |-> "ONNX", handles |-> {"torch"}] >>

FnTypes == {"torch", "keras"}

\* Model._find_exporter: the index of the first exporter of the model's
\* platform that handles the model function, 0 when there is none
find_exporter(platform, fn_type) ==
    LET matching == {i \in 1..Len(Exporters) :
                        /\ Exporters[i].platform = platform
                        /\ fn_type \in Exporters[i].handles}
    IN  IF matching = {} THEN 0 ELSE CHOOSE i \in matching : \A j \in matching : i <= j

\* How a call ends: `written` lists the files the call wrote, in the order it
\* wrote them.
ExportOutcome(cfg, st, result, target, do_remove, written) ==
    [cfg |-> cfg, fs |-> st, result |-> result, target |-> target, do_remove |-> do_remove,
     written |-> written]

\* The except clause leaving the directory in place.
Cleanup_Never(st, do_remove, output_dir) == st

\* The except clause removing the directory whoever made it.
Cleanup_Always(st, do_remove, output_dir) == remove(st, output_dir)

\* lines 250-255: `if do_remove: self.fs.remove(output_dir)`
Cleanup(st, do_remove, output_dir) ==
    IF do_remove THEN remove(st, output_dir) ELSE st

\* The configuration written before the exporter makes the artifact.
ExportInto_ConfigFirst(cfg, st, name, platform, target, do_remove, input_shapes, ext) ==
    LET output_dir == join(<<name>>, <<StrOfInt(target)>>)
        export_path == join(output_dir, <<ConventionFilename(platform)>>)
        config_path == join(<<name>>, <<ConfigFile>>)
        Failed(c, st1, result, written) ==
            ExportOutcome(c, Cleanup(st1, do_remove, output_dir), result, target, do_remove,
                          written)
        checked_in == check_exposed_tensors(cfg, "input", input_shapes)
        checked_out == check_exposed_tensors(checked_in.cfg, "output", ext.output_shapes)
    IN  IF checked_in.result # "ok"
        THEN Failed(checked_in.cfg, st, checked_in.result, << >>)
        ELSE IF ext.output_shapes.kind = "raise"
        THEN Failed(checked_in.cfg, st, "OutputShapesError", << >>)
        ELSE IF checked_out.result # "ok"
        THEN Failed(checked_out.cfg, st, checked_out.result, << >>)
        ELSE IF ext.write = "raise"
        THEN Failed(checked_out.cfg, st, "WriteError", << >>)
        ELSE IF ext.export = "raise"
        THEN Failed(checked_out.cfg, write(st, config_path), "ExportError", <<config_path>>)
        ELSE IF ext.export = "partial"
        THEN Failed(checked_out.cfg, write(write(st, config_path), export_path),
                    "ExportError", <<config_path, export_path>>)
        ELSE ExportOutcome(checked_out.cfg,
                           write(write(st, config_path), export_path),
                           "ok", target, do_remove, <<config_path, export_path>>)

\* lines 231-255, the try block and its except clause
ExportInto(cfg, st, name, platform, target, do_remove, input_shapes, ext) ==
    LET output_dir == join(<<name>>, <<StrOfInt(target)>>)
        export_path == join(output_dir, <<ConventionFilename(platform)>>)
        config_path == join(<<name>>, <<ConfigFile>>)
        Failed(c, st1, result, written) ==
            ExportOutcome(c, Cleanup(st1, do_remove, output_dir), result, target, do_remove,
                          written)
        checked_in == check_exposed_tensors(cfg, "input", input_shapes)
        checked_out == check_exposed_tensors(checked_in.cfg, "output", ext.output_shapes)
    IN  IF checked_in.result # "ok"
        THEN Failed(checked_in.cfg, st, checked_in.result, << >>)
        ELSE IF ext.output_shapes.kind = "raise"
        THEN Failed(checked_in.cfg, st, "OutputShapesError", << >>)
        ELSE IF checked_out.result # "ok"
        THEN Failed(checked_out.cfg, st, checked_out.result, << >>)
        ELSE IF ext.export = "raise"
        THEN Failed(checked_out.cfg, st, "ExportError", << >>)
        ELSE IF ext.export = "partial"
        THEN Failed(checked_out.cfg, write(st, export_path), "ExportError", <<export_path>>)
        ELSE IF ext.write = "raise"
        THEN Failed(checked_out.cfg, write(st, export_path), "WriteError", <<export_path>>)
        ELSE ExportOutcome(checked_out.cfg,
                           write(write(st, export_path), config_path),
                           "ok", target, do_remove, <<export_path, config_path>>)

\* lines 228-229 and what follows them
ExportAt(cfg, st, name, platform, target, input_shapes, ext) ==
    LET made == soft_makedirs(st, join(<<name>>, <<StrOfInt(target)>>))
    IN  ExportInto(cfg, made.fs, name, platform, target, made.created, input_shapes, ext)

\* The version directory made before the exporter is looked for.
export_version_DirectoryFirst(cfg, st, name, platform, fn_type, version, input_shapes, ext) ==
    IF version = VersionNotGiven /\ versions(st, name) = {}
    THEN IF find_exporter(platform, fn_type) = 0
         THEN ExportOutcome(cfg, st, "NoExporterError", VersionNotGiven, FALSE, << >>)
         ELSE ExportOutcome(cfg, st, "EmptyVersionsError", VersionNotGiven, FALSE, << >>)
    ELSE LET target == IF version = VersionNotGiven
                       THEN Max(versions(st, name)) + 1 ELSE version
             made == soft_makedirs(st, join(<<name>>, <<StrOfInt(target)>>))
         IN  IF find_exporter(platform, fn_type) = 0
             THEN ExportOutcome(cfg, made.fs, "NoExporterError", VersionNotGiven, FALSE, << >>)
             ELSE ExportInto(cfg, made.fs, name, platform, target, made.created,
                             input_shapes, ext)

\* Model.export_version.  max() of no versions raises ValueError.
export_version(cfg, st, name, platform, fn_type, version, input_shapes, ext) ==
    IF find_exporter(platform, fn_type) = 0
    THEN ExportOutcome(cfg, st, "NoExporterError", VersionNotGiven, FALSE, << >>)
    ELSE IF version = VersionNotGiven
    THEN IF versions(st, name) = {}
         THEN ExportOutcome(cfg, st, "EmptyVersionsError", VersionNotGiven, FALSE, << >>)
         ELSE ExportAt(cfg, st, name, platform, Max(versions(st, name)) + 1, input_shapes, ext)
    ELSE ExportAt(cfg, st, name, platform, version, input_shapes, ext)

(***************************************************************************)
(* The exports of one model.  The repository holds the model's directory   *)
(* (Model.__post_init__), and may hold another model whose name is a       *)
(* number.                                                                 *)
(***************************************************************************)
OtherModelName == "1"

ExportVersions == {VersionNotGiven, 0, 1}

ExportInputShapes ==
    {NoneProvided,
     [kind |-> "dict", names |-> <<"x">>, shapes |-> << <<NoneDim, 4>> >>],
     [kind |-> "list", names |-> << >>, shapes |-> << <<4, NoneDim>> >>]}

ExportOutputShapes ==
    {[kind |-> "raise", names |-> << >>, shapes |-> << >>],
     [kind |-> "list", names |-> << >>, shapes |-> << <<NoneDim, 10>> >>],
     [kind |-> "list", names |-> << >>, shapes |-> << <<NoneDim, 4>> >>]}

\* A step that is not reached is left at "ok".
ExternalBehaviours ==
    {e \in [output_shapes : ExportOutputShapes, export : {"ok", "raise", "partial"},
            write : {"ok", "raise"}] :
        /\ e.output_shapes.kind = "raise" => e.export = "ok"
        /\ e.export # "ok" => e.write = "ok"}

DefaultBehaviour ==
    [output_shapes |-> [kind |-> "list", names |-> << >>, shapes |-> << <<NoneDim, 10>> >>],
     export |-> "ok", write |-> "ok"]

NoExport == [op |-> "none", fn_type |-> "torch", version |-> VersionNotGiven,
             input_shapes |-> NoneProvided,
             ext |-> [output_shapes |-> NoneProvided, export |-> "ok", write |-> "ok"],
             exporter |-> 0, result |-> "ok", target |-> VersionNotGiven,
             do_remove |-> FALSE, written |-> << >>]

InitExport ==
    /\ config = EmptyConfig
    /\ call = NoExport
    /\ before = EmptyConfig
    /\ ncalls = 0
    /\ fs \in {soft_makedirs(soft_makedirs(NoStorage, Root).fs, <<ModelName>>).fs,
               soft_makedirs(soft_makedirs(soft_makedirs(NoStorage, Root).fs,
                                           <<OtherModelName>>).fs, <<ModelName>>).fs}
    /\ fsbefore = fs
    /\ exports = NoExports

ExportVersion ==
    /\ ncalls < MaxCalls
    /\ \E fn_type \in FnTypes, version \in ExportVersions,
          input_shapes \in ExportInputShapes, ext \in ExternalBehaviours :
          \* a model function no exporter takes: one call stands for all
          /\ fn_type = "keras" =>
                (version = 0 /\ input_shapes = NoneProvided /\ ext = DefaultBehaviour)
          /\ LET out == export_version(config, fs, ModelName, ModelPlatform, fn_type,
                                    version, input_shapes, ext)
             IN  /\ config' = out.cfg
                 /\ fs' = out.fs
                 /\ call' = [op |-> "export", fn_type |-> fn_type, version |-> version,
                             input_shapes |-> input_shapes, ext |-> ext,
                             exporter |-> find_exporter(ModelPlatform, fn_type),
                             result |-> out.result, target |-> out.target,
                             do_remove |-> out.do_remove, written |-> out.written]
                 /\ before' = config
                 /\ fsbefore' = fs
                 /\ ncalls' = ncalls + 1
                 /\ UNCHANGED exports

NextExport == ExportVersion

SpecExport == InitExport /\ [][NextExport]_vars

(***************************************************************************)
(* Properties of export_version.                                           *)
(***************************************************************************)
\* The version directories the model has in a storage.
VersionDirs(st) == {v \in 0..4 : join(<<ModelName>>, <<StrOfInt(v)>>) \in st.dirs}

\* The directory the last call exported into.
OutputDir == join(<<ModelName>>, <<StrOfInt(call.target)>>)

Under(st, dir) == {p \in st.dirs \cup st.files : IsPrefix(dir, p)}

StepFailures ==
    {"ConfigurationError", "InvalidShapeError", "ShapeMismatchError",
     "OutputShapesError", "ExportError", "WriteError"}

\* C17: with version = None the call targets one more than the largest
\* existing version, and 0 when the model has no version; in that case it does
\* not fail on the empty version list, and when it succeeds version 0 is the
\* one version directory of the model.
C17_DefaultVersion ==
    (/\ call.op = "export"
     /\ call.version = VersionNotGiven
     /\ call.result # "NoExporterError")
        => IF VersionDirs(fsbefore) = {}
           THEN /\ call.result # "EmptyVersionsError"
                /\ call.target = 0
                /\ call.result = "ok" => VersionDirs(fs) = {0}
           ELSE call.target = Max(VersionDirs(fsbefore)) + 1

\* C18: when the call made the version directory and a later step fails, the
\* directory and what was put in it are gone when the call returns, the
\* storage and the version list are as before the call, and the failure of
\* that step is what the call raises.
C18_FreshDirectoryRemoved ==
    (call.op = "export" /\ call.do_remove /\ call.result # "ok")
        => /\ Under(fs, OutputDir) = {}
           /\ fs = fsbefore
           /\ VersionDirs(fs) = VersionDirs(fsbefore)
           /\ versions(fs, ModelName) = versions(fsbefore, ModelName)
           /\ call.result \in StepFailures
           /\ call.result = "OutputShapesError" => call.ext.output_shapes.kind = "raise"
           /\ call.result = "ExportError" => call.ext.export # "ok"
           /\ call.result = "WriteError" => call.ext.write = "raise"

\* The exporter raised after it had written into the directory the call made.
C18_Witness ==
    /\ call.op = "export"
    /\ call.do_remove
    /\ call.ext.export = "partial"
    /\ call.result = "ExportError"
    /\ OutputDir \notin fsbefore.dirs
    /\ OutputDir \notin fs.dirs

\* C19: when the version directory existed before the call and the export
\* fails, the directory and all that was in it are still there; a call never
\* removes a directory or a file that existed before it.
C19_ExistingDirectoryKept ==
    /\ (/\ call.op = "export"
        /\ call.target # VersionNotGiven
        /\ ~call.do_remove
        /\ call.result # "ok")
          => /\ OutputDir \in fs.dirs
             /\ Under(fsbefore, OutputDir) \subseteq Under(fs, OutputDir)
    /\ call.op = "export"
          => (fsbefore.dirs \subseteq fs.dirs /\ fsbefore.files \subseteq fs.files)

\* A failing export into a directory that held an artifact already.
C19_Witness ==
    /\ call.op = "export"
    /\ call.target # VersionNotGiven
    /\ ~call.do_remove
    /\ call.result \in StepFailures
    /\ join(OutputDir, <<ConventionFilename(ModelPlatform)>>) \in fsbefore.files
    /\ join(OutputDir, <<ConventionFilename(ModelPlatform)>>) \in fs.files
    /\ OutputDir \in fs.dirs

\* The exporters of the model's platform that handle the model function.
Matching(fn_type) ==
    {i \in 1..Len(Exporters) : /\ Exporters[i].platform = ModelPlatform
                               /\ fn_type \in Exporters[i].handles}

\* C24: the exporter is resolved before the storage is touched: with no
\* exporter of the model's platform that handles the model function the call
\* fails with NoExporterError and has made no version directory; with several
\* of them the first in enumeration order is the one used.
C24_ExporterFirst ==
    call.op = "export"
        => /\ Matching(call.fn_type) = {}
                => /\ call.result = "NoExporterError"
                   /\ fs = fsbefore
                   /\ VersionDirs(fs) = VersionDirs(fsbefore)
           /\ Matching(call.fn_type) # {}
                => /\ call.result # "NoExporterError"
                   /\ call.exporter \in Matching(call.fn_type)
                   /\ \A i \in Matching(call.fn_type) : call.exporter <= i

\* No exporter for the model function, and a version named that does not exist.
C24_Witness ==
    /\ call.op = "export"
    /\ call.result = "NoExporterError"
    /\ call.version = 0
    /\ 0 \notin VersionDirs(fsbefore)
    /\ 0 \notin VersionDirs(fs)

ConfigPath == join(<<ModelName>>, <<ConfigFile>>)

ExportPath == join(OutputDir, <<ConventionFilename(ModelPlatform)>>)

\* C25: the configuration is written to the storage only after the input
\* validation, the output-shape inference, the output validation and the
\* exporter's artifact step have succeeded, in that order; a call that fails
\* in one of those steps writes no configuration.
C25_ConfigWrittenLast ==
    call.op = "export"
        => /\ call.result = "ok" => call.written = <<ExportPath, ConfigPath>>
           /\ call.result # "ok"
                => \A i \in 1..Len(call.written) : call.written[i] # ConfigPath
           /\ (\E i \in 1..Len(call.written) : call.written[i] = ConfigPath)
                => /\ check_exposed_tensors(before, "input", call.input_shapes).result = "ok"
                   /\ call.ext.output_shapes.kind # "raise"
                   /\ check_exposed_tensors(
                          check_exposed_tensors(before, "input", call.input_shapes).cfg,
                          "output", call.ext.output_shapes).result = "ok"
                   /\ call.ext.export = "ok"
                   /\ ExportPath \in fs.files

\* The exporter fails on a model whose configuration an earlier call wrote.
C25_Witness ==
    /\ call.op = "export"
    /\ call.result = "ExportError"
    /\ ConfigPath \in fsbefore.files
    /\ call.written = << >>

(***************************************************************************)
(* The file system on its own, driven as tests/unit/test_io.py drives it:  *)
(* directories test/123 and test/456, files test.txt in each and test.txt, *)
(* test.csv in test.  `call` is the last call with what it returned.       *)
(***************************************************************************)
TestDirs == {<<"test", "123">>, <<"test", "456">>}

TestFiles == {<<"test", "123", "test.txt">>, <<"test", "456", "test.txt">>,
              <<"test", "test.txt">>, <<"test", "test.csv">>}

ListedPaths == {<<"test">>, <<"test", "123">>}

\* The paths soft_makedirs is called with: the directories of the test, and a
\* path one of its files may already have.
MadePaths == TestDirs \cup {<<"test", "test.txt">>}

Orderings(S) ==
    {f \in [1..Cardinality(S) -> S] : \A i, j \in 1..Cardinality(S) : f[i] = f[j] => i = j}

\* LocalFileSystem.list: os.listdir gives the entries in arbitrary order, so
\* any order of them is a listing the call may return
list(st, path) == Orderings(Entries(st, join(Root, path)))

NoFsCall == [op |-> "none", path |-> Root, result |-> "ok", created |-> FALSE,
             listing |-> << >>]

FsCall(op, path, result, created, listing) ==
    [op |-> op, path |-> path, result |-> result, created |-> created,
     listing |-> listing]

InitFS ==
    /\ fs = soft_makedirs(NoStorage, Root).fs
    /\ fsbefore = NoStorage
    /\ exports = NoExports
    /\ call = NoFsCall
    /\ config = EmptyConfig
    /\ before = EmptyConfig
    /\ ncalls = 0

FsSoftMakedirs ==
    \E path \in MadePaths :
        /\ fs' = soft_makedirs(fs, path).fs
        /\ call' = FsCall("soft_makedirs", path, "ok", soft_makedirs(fs, path).created, << >>)
        /\ fsbefore' = fs
        /\ UNCHANGED <<config, before, ncalls, exports>>

\* open() fails when the directory of the file is missing, and when the path
\* is a directory
FsWrite ==
    \E path \in TestFiles :
        /\ IF isdir(fs, path)
           THEN /\ fs' = fs
                /\ call' = FsCall("write", path, "IsADirectoryError", FALSE, << >>)
           ELSE IF isdir(fs, SubSeq(path, 1, Len(path) - 1))
           THEN /\ fs' = write(fs, path)
                /\ call' = FsCall("write", path, "ok", FALSE, << >>)
           ELSE /\ fs' = fs
                /\ call' = FsCall("write", path, "FileNotFoundError", FALSE, << >>)
        /\ fsbefore' = fs
        /\ UNCHANGED <<config, before, ncalls, exports>>

\* os.listdir fails on a path that is no directory
FsList ==
    \E path \in ListedPaths :
        /\ IF isdir(fs, path)
           THEN \E listing \in list(fs, path) :
                    call' = FsCall("list", path, "ok", FALSE, listing)
           ELSE call' = FsCall("list", path, "FileNotFoundError", FALSE, << >>)
        /\ fs' = fs
        /\ fsbefore' = fs
        /\ UNCHANGED <<config, before, ncalls, exports>>

\* remove of what is neither a directory nor a file globs for it, finds
\* nothing and raises NoFilesFoundError
FsRemove ==
    \E path \in TestDirs \cup TestFiles :
        /\ IF exists(fs, path)
           THEN /\ fs' = remove(fs, path)
                /\ call' = FsCall("remove", path, "ok", FALSE, << >>)
           ELSE /\ fs' = fs
                /\ call' = FsCall("remove", path, "NoFilesFoundError", FALSE, << >>)
        /\ fsbefore' = fs
        /\ UNCHANGED <<config, before, ncalls, exports>>

NextFS == FsSoftMakedirs \/ FsWrite \/ FsList \/ FsRemove

SpecFS == InitFS /\ [][NextFS]_vars

\* The names of the test in alphanumeric order.
AlphanumericOrder == <<"123", "456", "test", "test.csv", "test.txt">>

InOrder(S) == SelectSeq(AlphanumericOrder, LAMBDA n : n \in S)

\* C20: list(path) returns the entries of the directory with the directories
\* first and the files after them, each group in alphanumeric order, whatever
\* the order they were made in.
C20_ListOrder ==
    (call.op = "list" /\ call.result = "ok")
        => call.listing =
              InOrder({n \in Entries(fs, call.path) : isdir(fs, join(call.path, <<n>>))})
              \o InOrder({n \in Entries(fs, call.path) : ~isdir(fs, join(call.path, <<n>>))})

\* C21: soft_makedirs(path) returns true exactly when the call made the
\* directory and false when the path existed already; a second call on the
\* path returns false and changes nothing in the storage; and after any call
\* isdir(path) is true.
C21_SoftMakedirs ==
    /\ call.op = "soft_makedirs"
          => /\ call.created = ~exists(fsbefore, call.path)
             /\ ~call.created => fs = fsbefore
             /\ isdir(fs, call.path)
    /\ call.op = "soft_makedirs"
          => soft_makedirs(fs, call.path) = [fs |-> fs, created |-> FALSE]

\* C21, for a path that is not a file: soft_makedirs(path) returns true
\* exactly when the call made the directory and false when the path existed
\* already; a second call on the path returns false and changes nothing in
\* the storage; and after a call on a path that was not a file isdir(path) is
\* true, while a path that was a file is still that file.
C21_SoftMakedirsNotOnFile ==
    /\ call.op = "soft_makedirs"
          => /\ call.created = ~exists(fsbefore, call.path)
             /\ ~call.created => fs = fsbefore
             /\ call.path \notin fsbefore.files => isdir(fs, call.path)
             /\ call.path \in fsbefore.files => ~isdir(fs, call.path)
    /\ call.op = "soft_makedirs"
          => soft_makedirs(fs, call.path) = [fs |-> fs, created |-> FALSE]

\* A second soft_makedirs on a directory an earlier call made.
C21_Witness ==
    /\ call.op = "soft_makedirs"
    /\ ~call.created
    /\ isdir(fsbefore, call.path)
    /\ fs = fsbefore

(***************************************************************************)
(* Two export_version calls on the same model and the same version, their  *)
(* storage calls interleaved.  Each call goes through model.py 228-255:    *)
(*   "exists"    soft_makedirs asks os.path.exists (local.py 21)           *)
(*   "makedirs"  soft_makedirs calls os.makedirs (local.py 22)             *)
(*   "try"       the validation and the exporter, which writes the artifact*)
(*   "write"     config.write                                              *)
(*   "except"    the except clause                                         *)
(*   "returned" / "raised"  the call is over                               *)
(* and keeps its do_remove and whether it has written its artifact.        *)
(***************************************************************************)
Callers == {"p", "q"}

SameVersion == 0

SameOutputDir == join(<<ModelName>>, <<StrOfInt(SameVersion)>>)

SameExportPath == join(SameOutputDir, <<ConventionFilename(ModelPlatform)>>)

Started == [pc |-> "exists", do_remove |-> FALSE, wrote |-> FALSE]

InitInterleaved ==
    /\ exports = [c \in Callers |-> Started]
    /\ fs = soft_makedirs(soft_makedirs(NoStorage, Root).fs, <<ModelName>>).fs
    /\ fsbefore = fs
    /\ call = NoExport
    /\ config = EmptyConfig
    /\ before = EmptyConfig
    /\ ncalls = 0

Step(c, pc, do_remove, wrote, st) ==
    /\ exports' = [exports EXCEPT ![c] = [pc |-> pc, do_remove |-> do_remove,
                                          wrote |-> wrote]]
    /\ fs' = st
    /\ fsbefore' = fs
    /\ UNCHANGED <<config, call, before, ncalls>>

\* `if not os.path.exists(path)`: a path that exists makes soft_makedirs
\* return False
SoftMakedirsExists(c) ==
    /\ exports[c].pc = "exists"
    /\ IF exists(fs, SameOutputDir)
       THEN Step(c, "try", soft_makedirs(fs, SameOutputDir).created, FALSE, fs)
       ELSE Step(c, "makedirs", FALSE, FALSE, fs)

\* os.makedirs(path); return True.  It raises FileExistsError when the
\* directory was made since the test, and the call ends there, before its try
SoftMakedirsMake(c) ==
    /\ exports[c].pc = "makedirs"
    /\ IF exists(fs, SameOutputDir)
       THEN Step(c, "raised", FALSE, FALSE, fs)
       ELSE Step(c, "try", soft_makedirs(fs, SameOutputDir).created, FALSE,
                 soft_makedirs(fs, SameOutputDir).fs)

\* A validation, the output-shape inference or the exporter raises
TryRaises(c) ==
    /\ exports[c].pc = "try"
    /\ Step(c, "except", exports[c].do_remove, FALSE, fs)

\* exporter._export writes the artifact; its open() fails when the version
\* directory is gone
TryExport(c) ==
    /\ exports[c].pc = "try"
    /\ IF isdir(fs, SameOutputDir)
       THEN Step(c, "write", exports[c].do_remove, TRUE, write(fs, SameExportPath))
       ELSE Step(c, "except", exports[c].do_remove, FALSE, fs)

\* self.config.write() succeeds or raises
ConfigWrite(c) ==
    /\ exports[c].pc = "write"
    /\ \/ Step(c, "returned", exports[c].do_remove, TRUE,
               write(fs, join(<<ModelName>>, <<ConfigFile>>)))
       \/ Step(c, "except", exports[c].do_remove, TRUE, fs)

\* The except clause; fs.remove of a directory that is gone raises in place
\* of the failure, and the call is over either way
Except(c) ==
    /\ exports[c].pc = "except"
    /\ IF isdir(fs, SameOutputDir)
       THEN Step(c, "raised", exports[c].do_remove, exports[c].wrote,
                 Cleanup(fs, exports[c].do_remove, SameOutputDir))
       ELSE Step(c, "raised", exports[c].do_remove, exports[c].wrote, fs)

NextInterleaved ==
    \E c \in Callers :
        \/ SoftMakedirsExists(c)
        \/ SoftMakedirsMake(c)
        \/ TryRaises(c)
        \/ TryExport(c)
        \/ ConfigWrite(c)
        \/ Except(c)

SpecInterleaved == InitInterleaved /\ [][NextInterleaved]_vars

\* C27: with two export_version calls on one model and one version
\* interleaved, a call that fails never removes the version directory once
\* the other call has written its artifact into it.
C27_OtherCallsWorkKept ==
    [][\A c \in Callers :
          (/\ exports[c].pc = "except"
           /\ exports'[c].pc = "raised"
           /\ \E d \in Callers \ {c} : exports[d].wrote
           /\ SameExportPath \in fs.files)
              => (SameExportPath \in fs'.files /\ isdir(fs', SameOutputDir))]_vars

====
